---- MODULE Spec2Model ----
(***************************************************************************)
(* A model of mx_wasm.py: the mx project type that compiles every .c file   *)
(* of a source tree with emcc.  Strings and paths are sequences of          *)
(* one-character strings, so that suffix tests and slices are computed.     *)
(***************************************************************************)
EXTENDS Naturals, Sequences, FiniteSets, TLC

\* ------------------------------------------------------------------ bounds
\* Most entries (files and directories) below the source root.
MaxEntries == 3
\* Longest filename handed to remove_extension on its own.
MaxLen == 5

\* --------------------------------------------------------- string helpers
\* str.endswith
EndsWith(s, suffix) ==
    /\ Len(s) >= Len(suffix)
    /\ SubSeq(s, Len(s) - Len(suffix) + 1, Len(s)) = suffix

\* s[:-n] of Python: the empty string when s is shorter than n.
DropLast(s, n) == SubSeq(s, 1, IF Len(s) >= n THEN Len(s) - n ELSE 0)

\* posixpath.join of two components.
os_path_join(a, b) ==
    IF b # <<>> /\ Head(b) = "/" THEN b
    ELSE IF a = <<>> \/ a[Len(a)] = "/" THEN a \o b
    ELSE a \o <<"/">> \o b

DotC == <<".", "c">>
DotJs == <<".", "j", "s">>
DotWasm == <<".", "w", "a", "s", "m">>

\* ------------------------------------------------------- remove_extension
\* mx.abort ends the process; a result is either a value or the abort.
remove_extension_strip1(filename) ==
    IF EndsWith(filename, DotC)
    THEN [aborted |-> FALSE, value |-> DropLast(filename, 1)]
    ELSE [aborted |-> TRUE, value |-> <<>>]

remove_extension_any(filename) ==
    IF Len(filename) >= 2 /\ filename[Len(filename) - 1] = "."
    THEN [aborted |-> FALSE, value |-> DropLast(filename, 2)]
    ELSE [aborted |-> TRUE, value |-> <<>>]

remove_extension(filename) ==
    IF EndsWith(filename, DotC)
    THEN [aborted |-> FALSE, value |-> DropLast(filename, 2)]
    ELSE [aborted |-> TRUE, value |-> <<>>]

\* ------------------------------------------------------------ the project
ProjectDir == <<"/", "p">>
ProjectName == <<"w">>
SubDir == <<"s">>
OutputBase == <<"/", "o">>
SrcWord == <<"s", "r", "c">>

getSourceDir ==
    os_path_join(os_path_join(os_path_join(ProjectDir, SrcWord), ProjectName), SubDir)

getOutputDir == os_path_join(OutputBase, ProjectName)

\* ------------------------------------------------------ the source tree
\* A tree is [root: whether the source root exists, ls: directory (a sequence
\* of names below the root) -> its entries in the order the directory lists
\* them].
FileNames == {<<"a", ".", "c">>, <<"c", ".", "c">>, <<"d", ".", "h">>}
DirNames == {<<"b">>, <<"e", ".", "c">>}

Entries ==
    {[name |-> n, isdir |-> FALSE] : n \in FileNames}
        \cup {[name |-> n, isdir |-> TRUE] : n \in DirNames}

NamesIn(listing) == {listing[i].name : i \in 1..Len(listing)}

AddEntry(ls, d, e) ==
    IF e.isdir
    THEN [ls EXCEPT ![d] = Append(@, e)] @@ (Append(d, e.name) :> <<>>)
    ELSE [ls EXCEPT ![d] = Append(@, e)]

Grow(T) ==
    {[T EXCEPT !.ls = AddEntry(T.ls, d, e)] :
        <<d, e>> \in {x \in (DOMAIN T.ls) \X Entries : x[2].name \notin NamesIn(T.ls[x[1]])}}

RECURSIVE TreesUpTo(_)
TreesUpTo(n) ==
    IF n = 0 THEN {[root |-> TRUE, ls |-> (<<>> :> <<>>)]}
    ELSE LET smaller == TreesUpTo(n - 1)
         IN smaller \cup UNION {Grow(T) : T \in smaller}

NoTree == [root |-> FALSE, ls |-> (<<>> :> <<>>)]

Trees == TreesUpTo(MaxEntries) \cup {NoTree}

\* ------------------------------------------------------------- os.walk
\* os.walk(top), top-down: one (root, dirs, files) triple per directory, the
\* directory itself before its subdirectories, entries in listing order.
\* A missing top yields nothing.
NamesOf(listing, wantDir) ==
    LET kept == SelectSeq(listing, LAMBDA e : e.isdir = wantDir)
    IN [i \in 1..Len(kept) |-> kept[i].name]

RECURSIVE WalkDir(_, _, _)
RECURSIVE WalkDirs(_, _, _, _)
WalkDir(ls, d, root) ==
    LET dirs == NamesOf(ls[d], TRUE)
        files == NamesOf(ls[d], FALSE)
    IN <<[root |-> root, dirs |-> dirs, files |-> files]>>
           \o WalkDirs(ls, d, root, dirs)

WalkDirs(ls, d, root, dirs) ==
    IF dirs = <<>> THEN <<>>
    ELSE WalkDir(ls, Append(d, Head(dirs)), os_path_join(root, Head(dirs)))
             \o WalkDirs(ls, d, root, Tail(dirs))

os_walk(T, top) == IF T.root THEN WalkDir(T.ls, <<>>, top) ELSE <<>>

\* ---------------------------------------------------------- getSources
\* The filter of line 91 applied to one filename.
IsSourceName_h(filename) == EndsWith(filename, <<".", "h">>) \/ EndsWith(filename, DotC)

IsSourceName(filename) == EndsWith(filename, DotC)

RECURSIVE SourcesOfFiles(_, _)
SourcesOfFiles(root, files) ==
    IF files = <<>> THEN <<>>
    ELSE (IF IsSourceName(Head(files)) THEN << <<root, Head(files)>> >> ELSE <<>>)
             \o SourcesOfFiles(root, Tail(files))

RECURSIVE SourcesOfWalk(_)
SourcesOfWalk(walked) ==
    IF walked = <<>> THEN <<>>
    ELSE SourcesOfFiles(Head(walked).root, Head(walked).files)
             \o SourcesOfWalk(Tail(walked))

getSources_toponly(T) ==
    LET walked == os_walk(T, getSourceDir)
    IN IF walked = <<>> THEN <<>> ELSE SourcesOfWalk(<<Head(walked)>>)

getSources(T) == SourcesOfWalk(os_walk(T, getSourceDir))

\* ---------------------------------------------------------- getResults
\* The declared result of one source unit, or the abort of remove_extension.
ResultOf_keepext(unit) ==
    [aborted |-> FALSE, value |-> os_path_join(getOutputDir, unit[2] \o DotWasm)]

ResultOf(unit) ==
    LET base == remove_extension(unit[2])
    IN [aborted |-> base.aborted,
        value |-> os_path_join(getOutputDir, base.value \o DotWasm)]

\* The whole generator, drained: the results yielded before the first abort.
RECURSIVE ResultsOf(_)
ResultsOf(units) ==
    IF units = <<>> THEN [aborted |-> FALSE, value |-> <<>>]
    ELSE LET first == ResultOf(Head(units))
             rest == ResultsOf(Tail(units))
         IN IF first.aborted THEN [aborted |-> TRUE, value |-> <<>>]
            ELSE [aborted |-> rest.aborted, value |-> <<first.value>> \o rest.value]

getResults(T) == ResultsOf(getSources(T))

\* --------------------------------------------------------------- mkdir_p
\* os.makedirs on the output directory path, which holds a directory ("dir"),
\* another kind of entry ("file"), or nothing: "absent" when it can be
\* created, "denied" when permissions forbid creating it.
OutDirStates == {"absent", "denied", "dir", "file"}

os_makedirs(o) ==
    IF o \in {"dir", "file"} THEN [errno |-> "EEXIST", outdir |-> o]
    ELSE IF o = "denied" THEN [errno |-> "EACCES", outdir |-> o]
    ELSE [errno |-> "OK", outdir |-> "dir"]

mkdir_p_nocreate(o) ==
    [raised |-> o \in {"file", "denied"}, outdir |-> o]

mkdir_p(o) ==
    LET r == os_makedirs(o)
    IN IF r.errno = "OK" THEN [raised |-> FALSE, outdir |-> r.outdir]
       ELSE IF r.errno = "EEXIST" /\ o = "dir" THEN [raised |-> FALSE, outdir |-> o]
       ELSE [raised |-> TRUE, outdir |-> o]

\* ----------------------------------------------------------- environment
\* EMCC_DIR: unset, set to the empty string, or set to a directory.
EmccDirValue == <<"/", "e">>
Envs == {[set |-> FALSE, value |-> <<>>],
         [set |-> TRUE, value |-> <<>>],
         [set |-> TRUE, value |-> EmccDirValue]}

\* mx.get_env(key, default): None (here unset) when the variable is not set.
get_env(e) == e

\* `not emcc_dir`: None and the empty string are both false.
NoEmccDir_never(e) == FALSE

NoEmccDir(e) == ~e.set \/ e.value = <<>>

\* ----------------------------------------------------------------- build
\* The argument list of one compiler invocation (lines 131-136).
EmccWord == <<"e", "m", "c", "c">>
FlagOs == <<"-", "O", "s">>
FlagO == <<"-", "o">>

OutputPath_nested(unit) ==
    os_path_join(unit[1], remove_extension(unit[2]).value \o DotJs)

OutputPath(unit) ==
    os_path_join(getOutputDir, remove_extension(unit[2]).value \o DotJs)

SourcePath_nameonly(unit) == unit[2]

SourcePath(unit) == os_path_join(unit[1], unit[2])

CompileArgs(emcc_dir, unit) ==
    <<os_path_join(emcc_dir, EmccWord)>> \o <<FlagOs>>
        \o <<SourcePath(unit), FlagO, OutputPath(unit)>>

\* mx.run: exit code 0, a non-zero exit code, or the executable cannot be
\* launched; with nonZeroIsFatal (the default) everything but 0 aborts.
RunOutcomes == {"exit0", "nonzero", "nolaunch"}

RunAborts_lenient(outcome) == FALSE

RunAborts(outcome) == outcome # "exit0"

\* needsBuild (line 139).
needsBuild_cached(newestInput, st) == <<st # "Done", "none">>

needsBuild(newestInput, st) == <<TRUE, "none">>

NewestInputs == {"none", "newer"}

VARIABLES
    tree,       \* the source tree
    env,        \* EMCC_DIR of the running process
    outdir,     \* what the output directory path holds
    outdir0,    \* what it held when the current or last build() began
    written,    \* compiler targets on disk: <<target, source it was compiled from>>
    pc,         \* "idle", in build(): "env", "loop"; "dead" after an abort or a raise;
                \* "off" while only remove_extension is exercised
    status,     \* of the current or last build()
    calls,      \* the mx.run calls of the current or last build(): [args, outcome]
    todo,       \* source units the loop of build() has not reached yet
    ret,        \* the value the last query returned to the caller
    dname,      \* remove_extension exercised alone: its argument
    dres        \* the results of applying it, then applying it to its own output

vars == <<tree, env, outdir, outdir0, written, pc, status, calls, todo, ret, dname, dres>>

NoRet == [op |-> "none", value |-> <<>>]

Init ==
    /\ tree \in Trees
    /\ env \in Envs
    /\ outdir \in OutDirStates
    /\ outdir0 = outdir
    /\ written = {}
    /\ pc = "idle"
    /\ status = "NotStarted"
    /\ calls = <<>>
    /\ todo = <<>>
    /\ ret = NoRet
    /\ dname = <<>>
    /\ dres = <<>>

\* build(), lines 124-126: the output directory is ensured first.
BuildBegin ==
    /\ pc = "idle"
    /\ LET made == mkdir_p(outdir)
       IN /\ outdir' = made.outdir
          /\ pc' = IF made.raised THEN "dead" ELSE "env"
          /\ status' = IF made.raised THEN "OSError" ELSE "Running"
    /\ outdir0' = outdir
    /\ calls' = <<>>
    /\ todo' = <<>>
    /\ UNCHANGED <<tree, env, written, ret, dname, dres>>

\* build(), lines 127-132: EMCC_DIR is read, and the loop's generator made.
BuildEnv ==
    /\ pc = "env"
    /\ IF NoEmccDir(get_env(env))
       THEN /\ pc' = "dead"
            /\ status' = "MissingToolchain"
            /\ todo' = todo
       ELSE /\ pc' = "loop"
            /\ status' = status
            /\ todo' = getSources(tree)
    /\ UNCHANGED <<tree, env, outdir, outdir0, written, calls, ret, dname, dres>>

\* build(), lines 133-136: one iteration of the loop.
BuildCompile ==
    /\ pc = "loop"
    /\ todo # <<>>
    /\ LET unit == Head(todo)
       IN IF remove_extension(unit[2]).aborted
          THEN /\ pc' = "dead"
               /\ status' = "UnsupportedExtension"
               /\ UNCHANGED <<calls, todo, written>>
          ELSE \E outcome \in RunOutcomes :
               /\ calls' = Append(calls, [args |-> CompileArgs(get_env(env).value, unit),
                                          outcome |-> outcome])
               /\ IF RunAborts(outcome)
                  THEN /\ pc' = "dead"
                       /\ status' = "CompileFailure"
                       /\ UNCHANGED <<todo, written>>
                  ELSE /\ pc' = pc
                       /\ status' = status
                       /\ todo' = Tail(todo)
                       /\ written' =
                            IF outcome = "exit0"
                            THEN {w \in written : w[1] # OutputPath(unit)}
                                     \cup {<<OutputPath(unit), SourcePath(unit)>>}
                            ELSE written
    /\ UNCHANGED <<tree, env, outdir, outdir0, ret, dname, dres>>

\* build() returns once the generator is exhausted.
BuildReturn ==
    /\ pc = "loop"
    /\ todo = <<>>
    /\ pc' = "idle"
    /\ status' = "Done"
    /\ UNCHANGED <<tree, env, outdir, outdir0, written, calls, todo, ret, dname, dres>>

\* needsBuild(newestInput), lines 138-139.
NeedsBuild ==
    /\ pc = "idle"
    /\ \E newestInput \in NewestInputs :
        ret' = [op |-> "needsBuild", value |-> needsBuild(newestInput, status)]
    /\ UNCHANGED <<tree, env, outdir, outdir0, written, pc, status, calls, todo, dname, dres>>

\* clean(forBuild), lines 141-142: nothing is removed.
Clean ==
    /\ pc = "idle"
    /\ \E forBuild \in BOOLEAN :
        ret' = [op |-> "clean", value |-> <<>>]
    /\ UNCHANGED <<tree, env, outdir, outdir0, written, pc, status, calls, todo, dname, dres>>

\* getSources(), drained by the caller.
GetSources ==
    /\ pc = "idle"
    /\ ret' = [op |-> "getSources", value |-> getSources(tree)]
    /\ UNCHANGED <<tree, env, outdir, outdir0, written, pc, status, calls, todo, dname, dres>>

\* getResults(), drained by the caller; an abort inside it ends the process.
GetResults ==
    /\ pc = "idle"
    /\ LET r == getResults(tree)
       IN /\ ret' = [op |-> "getResults", value |-> r.value]
          /\ pc' = IF r.aborted THEN "dead" ELSE pc
    /\ UNCHANGED <<tree, env, outdir, outdir0, written, status, calls, todo, dname, dres>>

\* A new mx process over the same filesystem: a fresh project and task
\* (lines 67-72 and 110-118), with its own environment.
Restart ==
    /\ pc \in {"idle", "dead"}
    /\ status # "NotStarted"
    /\ env' \in Envs
    /\ pc' = "idle"
    /\ status' = "NotStarted"
    /\ calls' = <<>>
    /\ todo' = <<>>
    /\ ret' = NoRet
    /\ outdir0' = outdir
    /\ UNCHANGED <<tree, outdir, written, dname, dres>>

Next ==
    \/ BuildBegin
    \/ BuildEnv
    \/ BuildCompile
    \/ BuildReturn
    \/ NeedsBuild
    \/ Clean
    \/ GetSources
    \/ GetResults
    \/ Restart

Spec == Init /\ [][Next]_vars

\* ------------------------------------------- remove_extension on its own
\* Every filename of at most MaxLen characters over Chars.
Chars == {"a", "c", "h", "C", "."}
Filenames == UNION {[1..n -> Chars] : n \in 0..MaxLen}

InitDerive ==
    /\ tree = NoTree
    /\ env = [set |-> FALSE, value |-> <<>>]
    /\ outdir = "absent"
    /\ outdir0 = "absent"
    /\ written = {}
    /\ pc = "off"
    /\ status = "NotStarted"
    /\ calls = <<>>
    /\ todo = <<>>
    /\ ret = NoRet
    /\ dname \in Filenames
    /\ dres = <<>>

\* remove_extension(dname)
Derive ==
    /\ pc = "off"
    /\ dres = <<>>
    /\ dres' = <<remove_extension(dname)>>
    /\ UNCHANGED <<tree, env, outdir, outdir0, written, pc, status, calls, todo, ret, dname>>

\* remove_extension applied to the value it returned.
Rederive ==
    /\ pc = "off"
    /\ Len(dres) = 1
    /\ ~dres[1].aborted
    /\ dres' = Append(dres, remove_extension(dres[1].value))
    /\ UNCHANGED <<tree, env, outdir, outdir0, written, pc, status, calls, todo, ret, dname>>

NextDerive ==
    \/ Derive
    \/ Rederive

SpecDerive == InitDerive /\ [][NextDerive]_vars

\* ================================================================ claims
Sources == getSources(tree)

BuildEnded ==
    status \in {"Done", "OSError", "MissingToolchain", "CompileFailure",
                "UnsupportedExtension"}

CallArgs == [i \in 1..Len(calls) |-> calls[i].args]

\* The argument list the specification gives for the i-th source unit.
ExpectedArgs(i) ==
    <<env.value \o <<"/">> \o EmccWord,
      FlagOs,
      Sources[i][1] \o <<"/">> \o Sources[i][2],
      FlagO,
      getOutputDir \o <<"/">> \o DropLast(Sources[i][2], 2) \o DotJs>>

ExpectedCalls == [i \in 1..Len(Sources) |-> ExpectedArgs(i)]

\* C1 as stated: with EMCC_DIR set and no compiler invocation failing, a
\* build() that has ended has invoked the compiler exactly once per source
\* unit, in enumeration order, with the specified argument list.
C1_AsStated ==
    (BuildEnded /\ env.set /\ status # "CompileFailure") => CallArgs = ExpectedCalls

\* C1, amended: at every moment the invocations made so far are the first
\* source units in enumeration order, each once, with the specified argument
\* list; and with EMCC_DIR set to a non-empty value, the output directory
\* ensured and no compiler invocation failing, a build() that has ended is
\* Done and has invoked the compiler for every source unit.
C1_OncePerSourceUnit ==
    /\ Len(calls) <= Len(Sources)
    /\ \A i \in 1..Len(calls) : calls[i].args = ExpectedArgs(i)
    /\ (BuildEnded /\ env.set /\ env.value # <<>>
            /\ status \notin {"OSError", "CompileFailure"})
         => (status = "Done" /\ CallArgs = ExpectedCalls)

C1_Witness ==
    /\ status = "Done"
    /\ Len(calls) >= 2
    /\ \A i \in 1..Len(calls) : calls[i].outcome = "exit0"

\* C2 as stated: with EMCC_DIR unset, a build() that has ended failed with
\* MissingToolchain and invoked the compiler zero times.
C2_AsStated ==
    (BuildEnded /\ ~env.set) => (status = "MissingToolchain" /\ calls = <<>>)

\* C2, amended: with EMCC_DIR unset the compiler is never invoked, and a
\* build() that has ended failed: with MissingToolchain when the output
\* directory could be ensured, with the error mkdir_p raised otherwise.
C2_NoToolchainNoCompile ==
    ~env.set =>
        /\ calls = <<>>
        /\ status # "Done"
        /\ BuildEnded =>
             IF outdir = "dir" THEN status = "MissingToolchain"
             ELSE status = "OSError"

C2_Witness ==
    /\ ~env.set
    /\ status = "MissingToolchain"
    /\ Len(Sources) >= 2

\* C3: a compiler invocation that exits non-zero or cannot be launched is the
\* last invocation of its build(): the build is aborted with CompileFailure,
\* no later source unit is compiled and the failed one is not retried.
C3_FailureAborts ==
    \A k \in 1..Len(calls) :
        calls[k].outcome # "exit0" =>
            /\ k = Len(calls)
            /\ status = "CompileFailure"
            /\ pc = "dead"

C3_Witness ==
    /\ Len(calls) = 1
    /\ calls[1].outcome = "nonzero"
    /\ Len(Sources) >= 2
    /\ status = "CompileFailure"

\* C4: whenever needsBuild() has just returned, it returned "build required",
\* whatever was built, cleaned or asked before.
C4_AlwaysNeedsBuild ==
    ret.op = "needsBuild" => ret.value[1] = TRUE

C4_Witness ==
    /\ ret.op = "needsBuild"
    /\ status = "Done"
    /\ calls # <<>>
    /\ written # {}

\* A path ending in .js with that suffix replaced by .wasm.
JsToWasm(path) == DropLast(path, Len(DotJs)) \o DotWasm

\* C5: getResults() yields one result per enumerated source unit,
\* <outputDir>/<base>.wasm, and after a build() that compiled everything the
\* results are the compiler's output targets with .js replaced by .wasm.
C5_ResultsMatchTargets ==
    ret.op = "getResults" =>
        /\ Len(ret.value) = Len(Sources)
        /\ \A i \in 1..Len(Sources) :
             ret.value[i] =
                 getOutputDir \o <<"/">> \o DropLast(Sources[i][2], 2) \o DotWasm
        /\ status = "Done" =>
             /\ Len(calls) = Len(ret.value)
             /\ \A i \in 1..Len(calls) :
                  /\ EndsWith(calls[i].args[5], DotJs)
                  /\ JsToWasm(calls[i].args[5]) = ret.value[i]

C5_Witness ==
    /\ ret.op = "getResults"
    /\ status = "Done"
    /\ Len(ret.value) >= 2

\* Ending in .c, said without the code's own test: some prefix followed by .c.
HasDotC(f) == \E n \in 0..Len(f) : SubSeq(f, 1, n) \o DotC = f

\* C6: for a filename ending in .c remove_extension returns the filename
\* without its last two characters; for any other filename it aborts.
C6_StripDotC ==
    Len(dres) >= 1 =>
        IF HasDotC(dname)
        THEN /\ ~dres[1].aborted
             /\ dres[1].value \o DotC = dname
             /\ Len(dres[1].value) = Len(dname) - 2
        ELSE dres[1].aborted

C6_Witness ==
    /\ Len(dres) >= 1
    /\ dname = <<"a", ".", "c">>
    /\ dres[1].value = <<"a">>

\* C7 as stated: the output for a filename ending in .c no longer ends in
\* .c, so applying remove_extension to it aborts.
C7_AsStated ==
    (Len(dres) >= 1 /\ HasDotC(dname)) =>
        /\ ~HasDotC(dres[1].value)
        /\ Len(dres) = 2 => dres[2].aborted

\* C7, amended: the output for a filename ending in .c ends in .c exactly
\* when the filename ends in .c.c; applying remove_extension to the output
\* aborts unless the filename ends in .c.c, and then it strips .c once more.
C7_ReapplyFailsUnlessDoubled ==
    (Len(dres) >= 1 /\ HasDotC(dname)) =>
        /\ HasDotC(dres[1].value) <=> (\E n \in 0..Len(dname) :
                                           SubSeq(dname, 1, n) \o DotC \o DotC = dname)
        /\ Len(dres) = 2 =>
             IF HasDotC(dres[1].value)
             THEN ~dres[2].aborted /\ dres[2].value \o DotC \o DotC = dname
             ELSE dres[2].aborted

C7_Witness ==
    /\ Len(dres) = 2
    /\ dname = <<"a", ".", "c">>
    /\ dres[2].aborted

\* The path of directory d of the tree.
RECURSIVE DirPathOf(_)
DirPathOf(d) ==
    IF d = <<>> THEN getSourceDir
    ELSE DirPathOf(SubSeq(d, 1, Len(d) - 1)) \o <<"/">> \o d[Len(d)]

\* Every file of the tree, at any depth, as (directory path, filename).
FilesUnder(T) ==
    IF ~T.root THEN {}
    ELSE UNION {{<<DirPathOf(d), T.ls[d][i].name>> :
                    i \in {j \in 1..Len(T.ls[d]) : ~T.ls[d][j].isdir}} :
                d \in DOMAIN T.ls}

\* C8: getSources() yields each file under the source root whose name ends
\* in .c exactly once and nothing else; a missing root yields nothing.
C8_EnumeratesDotC ==
    ret.op = "getSources" =>
        /\ {ret.value[i] : i \in 1..Len(ret.value)}
               = {f \in FilesUnder(tree) : HasDotC(f[2])}
        /\ \A i, j \in 1..Len(ret.value) : ret.value[i] = ret.value[j] => i = j
        /\ ~tree.root => ret.value = <<>>

C8_Witness ==
    /\ ret.op = "getSources"
    /\ \E i \in 1..Len(ret.value) : ret.value[i][1] # getSourceDir
    /\ \E f \in FilesUnder(tree) : ~HasDotC(f[2])
    /\ \E d \in DOMAIN tree.ls : d # <<>> /\ HasDotC(d[Len(d)])

\* C9 as stated: EMCC_DIR is checked before the output directory is
\* ensured, so a build() aborted with MissingToolchain left the output
\* directory as it found it.
C9_AsStated ==
    status = "MissingToolchain" => outdir = outdir0

\* C9, amended: the output directory is ensured before EMCC_DIR is read, so
\* when EMCC_DIR is read, and when build() aborts with MissingToolchain, the
\* output directory exists (created if it was absent); nothing was compiled.
C9_MkdirBeforeEnv ==
    /\ pc = "env" => outdir = "dir"
    /\ status = "MissingToolchain" =>
         /\ outdir = "dir"
         /\ outdir0 \in {"absent", "dir"}
         /\ calls = <<>>

C9_Witness ==
    /\ status = "MissingToolchain"
    /\ outdir0 = "absent"
    /\ outdir = "dir"

\* A compiler target or declared result lies directly in the output
\* directory.
IsFlat(path) ==
    /\ Len(path) > Len(getOutputDir) + 1
    /\ SubSeq(path, 1, Len(getOutputDir) + 1) = getOutputDir \o <<"/">>
    /\ \A i \in (Len(getOutputDir) + 2)..Len(path) : path[i] # "/"

\* C10: every compiler target and declared result lies directly in the
\* output directory; source units with the same filename get the same
\* target and the same declared result, a build() that compiled them all is
\* Done with the target holding the output of the later one, and no build
\* is aborted for a reason other than the directory, the toolchain or the
\* compiler.
C10_FlatOutputsCollide ==
    /\ status # "UnsupportedExtension"
    /\ \A i \in 1..Len(calls) : IsFlat(calls[i].args[5])
    /\ \A i, j \in 1..Len(calls) :
         (i < j /\ Sources[i][2] = Sources[j][2]) =>
             /\ calls[i].args[5] = calls[j].args[5]
             /\ calls[j].outcome = "exit0" =>
                  <<calls[i].args[5], calls[i].args[3]>> \notin written
    /\ status = "Done" => \A i \in 1..Len(calls) :
         (\A j \in (i + 1)..Len(calls) : Sources[j][2] # Sources[i][2])
             => <<calls[i].args[5], calls[i].args[3]>> \in written
    /\ ret.op = "getResults" =>
         /\ \A i \in 1..Len(ret.value) : IsFlat(ret.value[i])
         /\ \A i, j \in 1..Len(ret.value) :
              Sources[i][2] = Sources[j][2] => ret.value[i] = ret.value[j]

C10_Witness ==
    /\ status = "Done"
    /\ ret.op = "getResults"
    /\ \E i, j \in 1..Len(calls) :
         /\ i < j
         /\ calls[i].args[3] # calls[j].args[3]
         /\ calls[i].args[5] = calls[j].args[5]
         /\ ret.value[i] = ret.value[j]
         /\ <<calls[j].args[5], calls[j].args[3]>> \in written
====
